---- MODULE Spec2Model ----
(***************************************************************************)
(* The two batch walks of the data migration (src/src/run.rs):             *)
(*   populate_historic_auctions  solver_competitions -> competition_auctions*)
(*   convert_executed_fee        order_execution fee re-denomination        *)
(* Each walk runs inside database transactions, one per batch.  The        *)
(* persisted tables are the variables named after the SQL tables; the      *)
(* writes of the open transaction are kept apart until the commit.         *)
(***************************************************************************)
EXTENDS Integers, Sequences, FiniteSets, TLC

VARIABLES
    walk,                 \* which entry point the process runs
    solver_competitions,  \* table: id -> [json, deadline, owners]
    competition_auctions, \* table: set of Auction rows (persisted)
    order_execution,      \* table: <<order_uid, auction_id>> -> [executed_fee, executed_fee_token]
    txOpen,               \* `ex`: a transaction is open
    txInserts,            \* Auction rows inserted by the open transaction
    txUpdates,            \* order_execution rows updated by the open transaction
    pc,                   \* position of the process in the walk
    current_auction_id,   \* the cursor
    starting_auction_number,
    competitions,         \* the fetched batch
    idx,                  \* index of the row of the batch being processed
    result,               \* (order_execution, order) pairs still to be handled
    errCause,             \* context of the error the walk returned
    log,                  \* lines printed by this run
    \* ---- observation of the run (not program state) ----
    run,                  \* number of the current process run
    results,              \* how the earlier runs ended
    faults,               \* database errors injected so far
    kills,                \* runs terminated from outside so far
    fetchRes,             \* outcome of the most recent fetch of this run
    fetched,              \* ids of the rows fetched by this run
    saves,                \* ids for which save() was called by this run
    updates,              \* update() calls of this run: what the guard saw
    lastCommit,           \* cursor value after the last successful commit
    killCursor,           \* lastCommit at the time of the last kill
    killLost,             \* writes of the open transaction at the last kill
    committed,            \* ids of the rows of the committed batches
    corrected,            \* order_execution rows whose correction is committed
    snapshot,             \* tables at the end of the previous run
    initial,              \* tables at the start
    \* ---- the decoder taken alone ----
    document,             \* a json value handed to serde_json::from_value
    decoded               \* what from_value returned for it

vars == <<walk, solver_competitions, competition_auctions, order_execution,
          txOpen, txInserts, txUpdates, pc, current_auction_id,
          starting_auction_number, competitions, idx, result, errCause, log,
          run, results, faults, kills, fetchRes, fetched, saves, updates,
          lastCommit, killCursor, killLost, committed, corrected, snapshot,
          initial, document, decoded>>

progVars == <<pc, current_auction_id, starting_auction_number, competitions,
              idx, result, errCause>>

----------------------------------------------------------------------------
(* Bounds of the model *)

MaxId == 2          \* source ids are 1..MaxId
MaxRuns == 2        \* process runs (a restart starts a new run)
MaxDisturbances == 1 \* database errors and kills injected in one behaviour
MaxExecs == 2       \* order_execution rows per competition
BlockBits == 4      \* width of the block number, standing for 64
U256Bits == 6       \* width of an amount, standing for 256

(* Program constants *)

BatchSizeTwo == 1 + 1
BATCH_SIZE == 1
FEE_BATCH_SIZE == 1

Ids == 1..MaxId
None == 0           \* Option::None of an id; ids are positive

I64Max == 2^(BlockBits - 1) - 1
U64Max == 2^BlockBits - 1

----------------------------------------------------------------------------
(* Small helpers *)

Max(S) == CHOOSE x \in S : \A y \in S : y <= x
Min(S) == CHOOSE x \in S : \A y \in S : x <= y

RECURSIVE SortedAsc(_)
SortedAsc(S) == IF S = {} THEN <<>> ELSE <<Min(S)>> \o SortedAsc(S \ {Min(S)})

RECURSIVE SortedDesc(_)
SortedDesc(S) == IF S = {} THEN <<>> ELSE <<Max(S)>> \o SortedDesc(S \ {Max(S)})

Take(s, n) == SubSeq(s, 1, IF Len(s) < n THEN Len(s) ELSE n)

Range(s) == {s[i] : i \in DOMAIN s}

----------------------------------------------------------------------------
(* The json documents.  kind "null": the column does not decode into a      *)
(* JsonValue, so the whole fetch fails.  kind "invalid": a json value that  *)
(* serde does not decode into a SolverCompetitionDB.  kind "doc": decodes.  *)

EmptyMap == [t \in {} |-> 0]

Json(kind, block, orderUids, prices, solutions) ==
    [kind |-> kind, auctionStartBlock |-> block, orders |-> orderUids,
     prices |-> prices, solutions |-> solutions]

NullJson == Json("null", 0, <<>>, EmptyMap, <<>>)
InvalidJson == Json("invalid", 0, <<>>, EmptyMap, <<>>)
OverflowDoc == Json("doc", U64Max, <<1>>, [t \in {1} |-> 1], <<>>)
DocA == Json("doc", 5, <<2, 1>>, [t \in {1, 2} |-> IF t = 1 THEN 5 ELSE 3], <<>>)
DocB == Json("doc", 0, <<>>, [t \in {3} |-> 1], <<>>)

Row(json, deadline, owners) ==
    [json |-> json, deadline |-> deadline, owners |-> owners]

PopRows == {Row(NullJson, 0, <<>>), Row(InvalidJson, 0, <<>>),
            Row(OverflowDoc, 0, <<>>), Row(DocA, 9, <<3>>), Row(DocB, 0, <<>>)}

----------------------------------------------------------------------------
(* Numeric codecs *)

\* u256_to_big_decimal: the integer as a decimal of scale 0
u256_to_big_decimal(u256) == [digits |-> u256, scale |-> 0]

----------------------------------------------------------------------------
(* serde_json::from_value::<SolverCompetitionDB> *)

Decodes(json) == json.kind = "doc"

\* i64::try_from(u64)
FitsI64(n) == n <= I64Max

----------------------------------------------------------------------------
(* println!: the lines are kept as a set of [msg, id, uid] *)

Line(msg, id, uid) == [msg |-> msg, id |-> id, uid |-> uid]

----------------------------------------------------------------------------
(* The transaction *)

\* a database call succeeds, or fails with a database error
DbOutcomes == IF faults + kills < MaxDisturbances THEN {TRUE, FALSE} ELSE {TRUE}

Charge(ok) == faults' = IF ok THEN faults ELSE faults + 1

NoUpdates == [k \in {} |-> [executed_fee |-> u256_to_big_decimal(0), executed_fee_token |-> 0]]

\* a table with the rows of `writes` replacing the rows of the same key
Overlay(table, writes) ==
    [k \in DOMAIN table |-> IF k \in DOMAIN writes THEN writes[k] ELSE table[k]]

\* what a transaction that ends without commit leaves of its writes in the
\* table: every statement ran on `ex`, so nothing
DiscardedInserts(table, writes) == table
KeptUpdates(table, writes) == Overlay(table, writes)
DiscardedUpdates(table, writes) == table

\* Transaction::drop without commit
Rollback == /\ txOpen' = FALSE
            /\ txInserts' = {}
            /\ txUpdates' = NoUpdates
            /\ competition_auctions' = DiscardedInserts(competition_auctions, txInserts)
            /\ order_execution' = DiscardedUpdates(order_execution, txUpdates)

tablesUnchanged == UNCHANGED <<competition_auctions, order_execution>>

\* `?` on an Err: the function returns the error and `ex` is dropped
Fail(cause) == /\ pc' = "err"
               /\ errCause' = cause
               /\ Rollback

----------------------------------------------------------------------------
(* populate_historic_auctions *)

AuctionsView == competition_auctions \cup txInserts

\* SELECT MIN(id) FROM competition_auctions
ResumePointMax(table) ==
    IF table = {} THEN None ELSE Max({r.id : r \in table})
ResumePoint(table) ==
    IF table = {} THEN None ELSE Min({r.id : r \in table})

FetchIdsInclusive(auction_id, batch_size) ==
    Take(SortedDesc({i \in DOMAIN solver_competitions : i <= auction_id}), batch_size)

FetchIdsAscending(auction_id, batch_size) ==
    Take(SortedAsc({i \in DOMAIN solver_competitions : i < auction_id}), batch_size)

\* WHERE sc.id < $1 ORDER BY sc.id DESC LIMIT $2, rows as RichSolverCompetition
FetchIds(auction_id, batch_size) ==
    Take(SortedDesc({i \in DOMAIN solver_competitions : i < auction_id}), batch_size)

RichSolverCompetition(i) ==
    [id |-> i, json |-> solver_competitions[i].json,
     deadline |-> solver_competitions[i].deadline,
     surplus_capturing_jit_order_owners |-> solver_competitions[i].owners]

\* the rows decode unless one of them has a json column that is no JsonValue
FetchDecodes(ids) == \A k \in DOMAIN ids : solver_competitions[ids[k]].json.kind # "null"

BuildAuctionMisaligned(sc) ==
    LET prices == sc.json.prices
        tokens == SortedAsc(DOMAIN prices)
        backwards == SortedDesc(DOMAIN prices)
    IN  [id |-> sc.id,
         block |-> sc.json.auctionStartBlock,
         deadline |-> sc.deadline,
         order_uids |-> sc.json.orders,
         price_tokens |-> tokens,
         price_values |-> [k \in DOMAIN tokens |-> u256_to_big_decimal(prices[backwards[k]])],
         surplus_capturing_jit_order_owners |-> sc.surplus_capturing_jit_order_owners]

BuildAuctionDescending(sc) ==
    LET prices == sc.json.prices
        tokens == SortedDesc(DOMAIN prices)
    IN  [id |-> sc.id,
         block |-> sc.json.auctionStartBlock,
         deadline |-> sc.deadline,
         order_uids |-> sc.json.orders,
         price_tokens |-> tokens,
         price_values |-> [k \in DOMAIN tokens |-> u256_to_big_decimal(prices[tokens[k]])],
         surplus_capturing_jit_order_owners |-> sc.surplus_capturing_jit_order_owners]

\* the Auction built from one fetched row and its decoded json
BuildAuction(sc) ==
    LET prices == sc.json.prices
        tokens == SortedAsc(DOMAIN prices)
    IN  [id |-> sc.id,
         block |-> sc.json.auctionStartBlock,
         deadline |-> sc.deadline,
         order_uids |-> sc.json.orders,
         price_tokens |-> tokens,
         price_values |-> [k \in DOMAIN tokens |-> u256_to_big_decimal(prices[tokens[k]])],
         surplus_capturing_jit_order_owners |-> sc.surplus_capturing_jit_order_owners]

\* competitions.last().unwrap().id
LastIdBelow(batch) == batch[Len(batch)].id - 1
LastId(batch) == batch[Len(batch)].id

\* the primary key of competition_auctions is id
DuplicateKey(id) == \E r \in AuctionsView : r.id = id

obsUnchanged == UNCHANGED <<walk, solver_competitions, run, results, kills,
                            killCursor, killLost, snapshot, initial,
                            document, decoded>>

\* if let Err(err) = save(..) { println!(..) }: the loop goes on either way
AfterSaveFatal(saved) ==
    IF ~saved THEN "err" ELSE IF idx = Len(competitions) THEN "commit" ELSE "process"
AfterSave(saved) == IF idx = Len(competitions) THEN "commit" ELSE "process"

\* let mut ex = db.pool.begin().await?
P_Begin ==
    /\ walk = "populate" /\ pc = "begin"
    /\ \E ok \in DbOutcomes :
        /\ Charge(ok)
        /\ IF ok
           THEN /\ pc' = "resume"
                /\ txOpen' = TRUE
                /\ tablesUnchanged
                /\ UNCHANGED <<txInserts, txUpdates, errCause>>
           ELSE Fail("begin")
    /\ UNCHANGED <<current_auction_id, starting_auction_number, competitions,
                   idx, result, log, fetchRes, fetched, saves, updates,
                   lastCommit, committed, corrected>>
    /\ obsUnchanged

P_ResumePoint ==
    /\ walk = "populate" /\ pc = "resume"
    /\ \E ok \in DbOutcomes :
        /\ Charge(ok)
        /\ IF ~ok
           THEN /\ Fail("fetch lowest auction id")
                /\ UNCHANGED <<current_auction_id, starting_auction_number, log, lastCommit>>
           ELSE LET min == ResumePoint(AuctionsView) IN
                IF min = None
                THEN /\ pc' = "ok"
                     /\ log' = log \cup {Line("competition_auctions is empty, nothing to process", 0, 0)}
                     /\ Rollback
                     /\ UNCHANGED <<current_auction_id, starting_auction_number,
                                    errCause, lastCommit>>
                ELSE /\ pc' = "fetch"
                     /\ current_auction_id' = min
                     /\ starting_auction_number' = min
                     /\ lastCommit' = min
                     /\ tablesUnchanged
                     /\ UNCHANGED <<txOpen, txInserts, txUpdates, errCause, log>>
    /\ UNCHANGED <<competitions, idx, result, fetchRes, fetched, saves, updates,
                   committed, corrected>>
    /\ obsUnchanged

P_Fetch ==
    /\ walk = "populate" /\ pc = "fetch"
    /\ \E ok \in DbOutcomes :
        /\ Charge(ok)
        /\ LET ids == FetchIds(current_auction_id, BATCH_SIZE) IN
           IF ~ok \/ ~FetchDecodes(ids)
           THEN \* let Ok(competitions) = competitions else { ...; continue }
                /\ fetchRes' = IF ok THEN "malformed" ELSE "dberror"
                /\ log' = log \cup {Line("failed to deserialize", current_auction_id, 0)}
                /\ current_auction_id' = current_auction_id - 1
                /\ tablesUnchanged
                /\ UNCHANGED <<pc, competitions, idx, fetched, txOpen, txInserts, txUpdates>>
           ELSE IF ids = <<>>
           THEN /\ fetchRes' = "empty"
                /\ log' = log \cup {Line("no more auctions to process", 0, 0)}
                /\ pc' = "ok"
                /\ Rollback
                /\ UNCHANGED <<current_auction_id, competitions, idx, fetched>>
           ELSE /\ fetchRes' = "rows"
                /\ competitions' = [k \in DOMAIN ids |-> RichSolverCompetition(ids[k])]
                /\ idx' = 1
                /\ fetched' = fetched \cup Range(ids)
                /\ pc' = "process"
                /\ tablesUnchanged
                /\ UNCHANGED <<current_auction_id, log, txOpen, txInserts, txUpdates>>
    /\ UNCHANGED <<starting_auction_number, result, errCause, saves, updates,
                   lastCommit, committed, corrected>>
    /\ obsUnchanged

\* one iteration of `for solver_competition in &competitions`
P_Process ==
    /\ walk = "populate" /\ pc = "process"
    /\ LET sc == competitions[idx] IN
       IF ~Decodes(sc.json)
       THEN /\ Fail("deserialize SolverCompetitionDB")
            /\ UNCHANGED <<idx, log, saves, faults>>
       ELSE IF ~FitsI64(sc.json.auctionStartBlock)
       THEN /\ Fail("block overflow")
            /\ UNCHANGED <<idx, log, saves, faults>>
       ELSE \E ok \in DbOutcomes :
            /\ Charge(ok)
            /\ saves' = saves \cup {sc.id}
            /\ IF ok /\ ~DuplicateKey(sc.id)
               THEN /\ txInserts' = txInserts \cup {BuildAuction(sc)}
                    /\ log' = log
               ELSE /\ txInserts' = txInserts
                    /\ log' = log \cup {Line("failed to save auction", sc.id, 0)}
            /\ idx' = idx + 1
            /\ pc' = AfterSave(ok /\ ~DuplicateKey(sc.id))
            /\ tablesUnchanged
            /\ UNCHANGED <<txOpen, txUpdates, errCause>>
    /\ UNCHANGED <<current_auction_id, starting_auction_number, competitions,
                   result, fetchRes, fetched, updates, lastCommit, committed,
                   corrected>>
    /\ obsUnchanged

\* ex.commit().await?
P_Commit ==
    /\ walk = "populate" /\ pc = "commit"
    /\ \E ok \in DbOutcomes :
        /\ Charge(ok)
        /\ IF ok
           THEN /\ competition_auctions' = competition_auctions \cup txInserts
                /\ txOpen' = FALSE
                /\ txInserts' = {}
                /\ pc' = "begin_next"
                /\ lastCommit' = competitions[Len(competitions)].id
                /\ committed' = committed \cup {competitions[k].id : k \in DOMAIN competitions}
                /\ UNCHANGED <<order_execution, txUpdates, errCause>>
           ELSE /\ Fail("commit")
                /\ UNCHANGED <<lastCommit, committed>>
    /\ UNCHANGED <<current_auction_id, starting_auction_number, competitions,
                   idx, result, log, fetchRes, fetched, saves, updates, corrected>>
    /\ obsUnchanged

\* ex = db.pool.begin().await?; current_auction_id = competitions.last().unwrap().id
P_BeginNext ==
    /\ walk = "populate" /\ pc = "begin_next"
    /\ \E ok \in DbOutcomes :
        /\ Charge(ok)
        /\ IF ok
           THEN /\ txOpen' = TRUE
                /\ current_auction_id' = LastId(competitions)
                /\ pc' = "fetch"
                /\ tablesUnchanged
                /\ UNCHANGED <<txInserts, txUpdates, errCause>>
           ELSE /\ Fail("begin")
                /\ UNCHANGED current_auction_id
    /\ UNCHANGED <<starting_auction_number, competitions, idx, result, log,
                   fetchRes, fetched, saves, updates, lastCommit, committed,
                   corrected>>
    /\ obsUnchanged

----------------------------------------------------------------------------
(* convert_executed_fee *)

U256Max == 2^U256Bits - 1

\* big_decimal_to_u256: None (-1) unless the decimal is a non-negative
\* integer of at most 256 bits
big_decimal_to_u256(d) ==
    IF d.scale = 0 /\ d.digits >= 0 /\ d.digits <= U256Max THEN d.digits ELSE -1

Sol(sellPrice, buyPrice) == [t \in {1, 2} |-> IF t = 1 THEN sellPrice ELSE buyPrice]

FeeDocFull == Json("doc", 5, <<1>>, EmptyMap, <<Sol(1, 3), Sol(2, 1)>>)
FeeDocNoBuy == Json("doc", 5, <<1>>, EmptyMap, <<Sol(2, 1), [t \in {1} |-> 2]>>)
FeeDocNoSolution == Json("doc", 5, <<1>>, EmptyMap, <<>>)
FeeDocZeroBuy == Json("doc", 5, <<1>>, EmptyMap, <<Sol(7, 0)>>)

FeeRows == {Row(NullJson, 0, <<>>), Row(InvalidJson, 0, <<>>),
            Row(FeeDocFull, 0, <<>>), Row(FeeDocNoBuy, 0, <<>>),
            Row(FeeDocNoSolution, 0, <<>>), Row(FeeDocZeroBuy, 0, <<>>)}

Uids == 1..6

Order(sell, buy, kind) == [sell_token |-> sell, buy_token |-> buy, kind |-> kind]
NoOrder == Order(0, 0, "none")

\* tables orders and jit_orders (read only)
orders ==
    [u \in {1, 2, 5, 6} |->
        CASE u = 1 -> Order(1, 2, "Sell")
          [] u = 2 -> Order(1, 2, "Buy")
          [] u = 5 -> Order(1, 1, "Sell")
          [] u = 6 -> Order(1, 2, "Sell")]
jit_orders ==
    [u \in {1, 3} |-> IF u = 1 THEN Order(1, 2, "Buy") ELSE Order(1, 2, "Sell")]

OrderExecution(fee, token) == [executed_fee |-> fee, executed_fee_token |-> token]

\* the order_execution row of order uid before the walk
ExecRow(uid) ==
    CASE uid = 1 -> OrderExecution(u256_to_big_decimal(10), 1)
      [] uid = 2 -> OrderExecution(u256_to_big_decimal(10), 1)
      [] uid = 3 -> OrderExecution(u256_to_big_decimal(7), 1)
      [] uid = 4 -> OrderExecution(u256_to_big_decimal(4), 1)
      [] uid = 5 -> OrderExecution(u256_to_big_decimal(3), 1)
      [] uid = 6 -> OrderExecution(u256_to_big_decimal(6), 2)

\* the table as the open transaction sees it
ExecView == Overlay(order_execution, txUpdates)

\* SELECT MAX(id) FROM solver_competitions
HighestId(table) == IF DOMAIN table = {} THEN None ELSE Max(DOMAIN table)

\* fetch_competition_order_execution: the competitions below the cursor,
\* newest first, at most batch_size of them
FetchCompetitionOrderExecution(auction_id, batch_size) ==
    Take(SortedDesc({i \in DOMAIN solver_competitions : i < auction_id}), batch_size)

\* database_order_executions::fetch: WHERE auction_id = $1
FetchExecutions(auction_id) == {k \in DOMAIN ExecView : k[2] = auction_id}

fetch_from_orders(uid) == IF uid \in DOMAIN orders THEN orders[uid] ELSE NoOrder
fetch_from_jit_orders(uid) == IF uid \in DOMAIN jit_orders THEN jit_orders[uid] ELSE NoOrder

ResolveOrderJitFirst(uid) ==
    IF fetch_from_jit_orders(uid) # NoOrder THEN fetch_from_jit_orders(uid)
    ELSE fetch_from_orders(uid)

\* orders first, jit_orders when orders has no row
ResolveOrder(uid) ==
    IF fetch_from_orders(uid) # NoOrder THEN fetch_from_orders(uid)
    ELSE fetch_from_jit_orders(uid)

\* the fee is in the sell token of a sell order
NeedsUpdateNoKind(order, order_execution_row) ==
    order_execution_row.executed_fee_token = order.sell_token
NeedsUpdateKindOnly(order, order_execution_row) ==
    order.kind = "Sell"
NeedsUpdate(order, order_execution_row) ==
    /\ order.kind = "Sell"
    /\ order_execution_row.executed_fee_token = order.sell_token

\* competition.solutions.last()
PricedSolutionFirst(solutions) == solutions[1]
PricedSolution(solutions) == solutions[Len(solutions)]

\* database_order_executions::update on the open transaction:
\* SET executed_fee, executed_fee_token WHERE order_uid = $3 AND auction_id = $4
updateByUid(writes, key, row) ==
    LET hit == {k \in DOMAIN order_execution : k[1] = key[1]} IN
    [k \in DOMAIN writes \cup hit |-> IF k \in hit THEN row ELSE writes[k]]
update(writes, key, row) ==
    LET hit == {k \in DOMAIN order_execution : k = key} IN
    [k \in DOMAIN writes \cup hit |-> IF k \in hit THEN row ELSE writes[k]]

\* where the walk goes after the last pair of a competition
AfterRow == IF idx = Len(competitions) THEN "commit" ELSE "resolve"

F_Begin ==
    /\ walk = "fee" /\ pc = "begin"
    /\ \E ok \in DbOutcomes :
        /\ Charge(ok)
        /\ IF ok
           THEN /\ pc' = "resume"
                /\ txOpen' = TRUE
                /\ tablesUnchanged
                /\ UNCHANGED <<txInserts, txUpdates, errCause>>
           ELSE Fail("begin")
    /\ UNCHANGED <<current_auction_id, starting_auction_number, competitions,
                   idx, result, log, fetchRes, fetched, saves, updates,
                   lastCommit, committed, corrected>>
    /\ obsUnchanged

F_ResumePoint ==
    /\ walk = "fee" /\ pc = "resume"
    /\ \E ok \in DbOutcomes :
        /\ Charge(ok)
        /\ IF ~ok
           THEN /\ Fail("fetch highest auction id")
                /\ UNCHANGED <<current_auction_id, starting_auction_number, log, lastCommit>>
           ELSE LET max == HighestId(solver_competitions) IN
                IF max = None
                THEN /\ pc' = "ok"
                     /\ log' = log \cup {Line("solver_competitions is empty, nothing to process", 0, 0)}
                     /\ Rollback
                     /\ UNCHANGED <<current_auction_id, starting_auction_number,
                                    errCause, lastCommit>>
                ELSE /\ pc' = "fetch"
                     /\ current_auction_id' = max
                     /\ starting_auction_number' = max
                     /\ lastCommit' = max
                     /\ tablesUnchanged
                     /\ UNCHANGED <<txOpen, txInserts, txUpdates, errCause, log>>
    /\ UNCHANGED <<competitions, idx, result, fetchRes, fetched, saves, updates,
                   committed, corrected>>
    /\ obsUnchanged

F_Fetch ==
    /\ walk = "fee" /\ pc = "fetch"
    /\ \E ok \in DbOutcomes :
        /\ Charge(ok)
        /\ LET ids == FetchCompetitionOrderExecution(current_auction_id, FEE_BATCH_SIZE) IN
           IF ~ok \/ ~FetchDecodes(ids)
           THEN /\ fetchRes' = IF ok THEN "malformed" ELSE "dberror"
                /\ log' = log \cup {Line("failed to deserialize", current_auction_id, 0)}
                /\ current_auction_id' = current_auction_id - 1
                /\ tablesUnchanged
                /\ UNCHANGED <<pc, competitions, idx, fetched, txOpen, txInserts, txUpdates>>
           ELSE IF ids = <<>>
           THEN /\ fetchRes' = "empty"
                /\ log' = log \cup {Line("no more competitions to process", 0, 0)}
                /\ pc' = "ok"
                /\ Rollback
                /\ UNCHANGED <<current_auction_id, competitions, idx, fetched>>
           ELSE /\ fetchRes' = "rows"
                /\ competitions' = [k \in DOMAIN ids |-> RichSolverCompetition(ids[k])]
                /\ idx' = 1
                /\ fetched' = fetched \cup Range(ids)
                /\ pc' = "resolve"
                /\ tablesUnchanged
                /\ UNCHANGED <<current_auction_id, log, txOpen, txInserts, txUpdates>>
    /\ UNCHANGED <<starting_auction_number, result, errCause, saves, updates,
                   lastCommit, committed, corrected>>
    /\ obsUnchanged

\* decode the competition, fetch its order_execution rows and the order of each
F_Resolve ==
    /\ walk = "fee" /\ pc = "resolve"
    /\ LET sc == competitions[idx] IN
       IF ~Decodes(sc.json)
       THEN /\ Fail("deserialize SolverCompetitionDB")
            /\ UNCHANGED <<idx, result, log, faults>>
       ELSE \E ok \in DbOutcomes :
            /\ Charge(ok)
            /\ IF ~ok
               THEN /\ Fail("fetch order executions")
                    /\ UNCHANGED <<idx, result, log>>
               ELSE LET keys == FetchExecutions(sc.id)
                        found == {k \in keys : ResolveOrder(k[1]) # NoOrder}
                        pairs == {[key |-> k, order_execution |-> ExecView[k],
                                   order |-> ResolveOrder(k[1])] : k \in found}
                    IN  /\ result' = pairs
                        /\ log' = log \cup {Line("order not found", k[2], k[1]) : k \in keys \ found}
                        /\ pc' = IF pairs = {} THEN AfterRow ELSE "exec"
                        /\ idx' = IF pairs = {} /\ idx < Len(competitions) THEN idx + 1 ELSE idx
                        /\ tablesUnchanged
                        /\ UNCHANGED <<txOpen, txInserts, txUpdates, errCause>>
    /\ UNCHANGED <<current_auction_id, starting_auction_number, competitions,
                   fetchRes, fetched, saves, updates, lastCommit, committed,
                   corrected>>
    /\ obsUnchanged

\* a panic ends the process; the transaction is never committed
Panic(cause) == /\ pc' = "panic"
                /\ errCause' = cause
                /\ Rollback

\* one iteration of `for (order_execution, order) in &result`
F_Exec ==
    /\ walk = "fee" /\ pc = "exec"
    /\ \E p \in result :
       LET rest == result \ {p}
           solutions == competitions[idx].json.solutions
           moveOn == /\ result' = rest
                     /\ pc' = IF rest = {} THEN AfterRow ELSE "exec"
                     /\ idx' = IF rest = {} /\ idx < Len(competitions) THEN idx + 1 ELSE idx
       IN
       IF ~NeedsUpdate(p.order, p.order_execution)
       THEN /\ moveOn
            /\ tablesUnchanged
            /\ UNCHANGED <<txOpen, txInserts, txUpdates, errCause, log, updates, faults>>
       ELSE IF solutions = <<>>
       THEN /\ Panic("called Option::unwrap() on a None value")
            /\ UNCHANGED <<result, idx, log, updates, faults>>
       ELSE LET prices == PricedSolution(solutions) IN
       IF p.order.sell_token \notin DOMAIN prices \/ p.order.buy_token \notin DOMAIN prices
       THEN /\ moveOn
            /\ log' = log \cup {Line("prices not found", p.key[2], p.key[1])}
            /\ tablesUnchanged
            /\ UNCHANGED <<txOpen, txInserts, txUpdates, errCause, updates, faults>>
       ELSE LET sell_token_price == prices[p.order.sell_token]
                buy_token_price == prices[p.order.buy_token]
                executed_fee == big_decimal_to_u256(p.order_execution.executed_fee)
            IN
       IF executed_fee = -1
       THEN /\ Panic("called Option::unwrap() on a None value")
            /\ UNCHANGED <<result, idx, log, updates, faults>>
       ELSE IF executed_fee * sell_token_price > U256Max
       THEN /\ Panic("arithmetic operation overflow")
            /\ UNCHANGED <<result, idx, log, updates, faults>>
       ELSE IF buy_token_price = 0
       THEN /\ Panic("division by zero")
            /\ UNCHANGED <<result, idx, log, updates, faults>>
       ELSE \E ok \in DbOutcomes :
            LET fee_in_buy_token == (executed_fee * sell_token_price) \div buy_token_price
                row == OrderExecution(u256_to_big_decimal(fee_in_buy_token), p.order.buy_token)
            IN
            /\ Charge(ok)
            /\ updates' = updates \cup
                   {[key |-> p.key, kind |-> p.order.kind,
                     fee_token |-> p.order_execution.executed_fee_token,
                     sell_token |-> p.order.sell_token,
                     again |-> p.key \in DOMAIN corrected]}
            /\ IF ok
               THEN /\ moveOn
                    /\ txUpdates' = update(txUpdates, p.key, row)
                    /\ tablesUnchanged
                    /\ UNCHANGED <<txOpen, txInserts, errCause, log>>
               ELSE /\ Fail("database_order_executions::update")
                    /\ UNCHANGED <<result, idx, log>>
    /\ UNCHANGED <<current_auction_id, starting_auction_number, competitions,
                   fetchRes, fetched, saves, lastCommit, committed, corrected>>
    /\ obsUnchanged

\* ex.commit().await?
F_Commit ==
    /\ walk = "fee" /\ pc = "commit"
    /\ \E ok \in DbOutcomes :
        /\ Charge(ok)
        /\ IF ok
           THEN /\ order_execution' = Overlay(order_execution, txUpdates)
                /\ txOpen' = FALSE
                /\ txUpdates' = NoUpdates
                /\ pc' = "begin_next"
                /\ lastCommit' = competitions[Len(competitions)].id
                /\ committed' = committed \cup {competitions[k].id : k \in DOMAIN competitions}
                /\ corrected' = [k \in DOMAIN corrected \cup DOMAIN txUpdates |->
                                    IF k \in DOMAIN corrected THEN corrected[k]
                                    ELSE txUpdates[k]]
                /\ UNCHANGED <<competition_auctions, txInserts, errCause>>
           ELSE /\ Fail("commit")
                /\ UNCHANGED <<lastCommit, committed, corrected>>
    /\ UNCHANGED <<current_auction_id, starting_auction_number, competitions,
                   idx, result, log, fetchRes, fetched, saves, updates>>
    /\ obsUnchanged

\* ex = db.pool.begin().await?; current_auction_id = competitions.last().unwrap().id
F_BeginNext ==
    /\ walk = "fee" /\ pc = "begin_next"
    /\ \E ok \in DbOutcomes :
        /\ Charge(ok)
        /\ IF ok
           THEN /\ txOpen' = TRUE
                /\ current_auction_id' = LastId(competitions)
                /\ pc' = "fetch"
                /\ tablesUnchanged
                /\ UNCHANGED <<txInserts, txUpdates, errCause>>
           ELSE /\ Fail("begin")
                /\ UNCHANGED current_auction_id
    /\ UNCHANGED <<starting_auction_number, competitions, idx, result, log,
                   fetchRes, fetched, saves, updates, lastCommit, committed,
                   corrected>>
    /\ obsUnchanged

----------------------------------------------------------------------------
(* The process: it can be terminated from outside at any point of a run,    *)
(* and it can be started again.                                             *)

Running == pc \in {"begin", "resume", "fetch", "process", "resolve", "exec",
                   "commit", "begin_next"}

\* the memory of the process is lost, and so is what this run was seen doing
Kill ==
    /\ Running
    /\ run < MaxRuns
    /\ faults + kills < MaxDisturbances
    /\ pc' = "killed"
    /\ Rollback
    /\ kills' = kills + 1
    /\ killCursor' = lastCommit
    /\ killLost' = Cardinality(txInserts) + Cardinality(DOMAIN txUpdates)
    /\ current_auction_id' = None
    /\ starting_auction_number' = None
    /\ competitions' = <<>>
    /\ idx' = 0
    /\ result' = {}
    /\ fetchRes' = "none"
    /\ fetched' = {}
    /\ saves' = {}
    /\ updates' = {}
    /\ log' = {}
    /\ UNCHANGED <<walk, solver_competitions, errCause, run, results, faults,
                   lastCommit, committed, corrected, snapshot, initial,
                   document, decoded>>

\* start(): the walk is entered again by a new process
Restart ==
    /\ ~Running
    /\ run < MaxRuns
    /\ run' = run + 1
    /\ results' = Append(results, pc)
    /\ snapshot' = [auctions |-> competition_auctions, executions |-> order_execution]
    /\ pc' = "begin"
    /\ current_auction_id' = None
    /\ starting_auction_number' = None
    /\ competitions' = <<>>
    /\ idx' = 0
    /\ result' = {}
    /\ errCause' = "none"
    /\ fetchRes' = "none"
    /\ fetched' = {}
    /\ saves' = {}
    /\ updates' = {}
    /\ log' = {}
    /\ UNCHANGED <<walk, solver_competitions, competition_auctions, order_execution,
                   txOpen, txInserts, txUpdates, faults, kills, lastCommit,
                   killCursor, killLost, committed, corrected, initial,
                   document, decoded>>

----------------------------------------------------------------------------

SeedAuction(i) ==
    [id |-> i, block |-> 1, deadline |-> 2, order_uids |-> <<>>,
     price_tokens |-> <<>>, price_values |-> <<>>,
     surplus_capturing_jit_order_owners |-> <<>>]

InitProcess ==
    /\ txOpen = FALSE
    /\ txInserts = {}
    /\ txUpdates = NoUpdates
    /\ pc = "begin"
    /\ current_auction_id = None
    /\ starting_auction_number = None
    /\ competitions = <<>>
    /\ idx = 0
    /\ result = {}
    /\ errCause = "none"
    /\ log = {}
    /\ run = 1
    /\ results = <<>>
    /\ faults = 0
    /\ kills = 0
    /\ fetchRes = "none"
    /\ fetched = {}
    /\ saves = {}
    /\ updates = {}
    /\ lastCommit = None
    /\ killCursor = None
    /\ killLost = 0
    /\ committed = {}
    /\ corrected = NoUpdates

InitPopulate ==
    /\ walk = "populate"
    /\ \E S \in SUBSET Ids : solver_competitions \in [S -> PopRows]
    /\ \E seeds \in SUBSET (1..(MaxId + 1)) :
        /\ Cardinality(seeds) <= 1
        /\ competition_auctions = {SeedAuction(i) : i \in seeds}
    /\ order_execution = NoUpdates

\* the table is empty, or holds the newest competition MaxId and any of the
\* older ones; every competition has the order_execution rows of the orders U
InitFee ==
    /\ walk = "fee"
    /\ \E S \in SUBSET (Ids \ {MaxId}) : \E f \in [S -> FeeRows] : \E empty \in BOOLEAN :
        /\ empty => S = {}
        /\ solver_competitions =
              IF empty THEN f
              ELSE [i \in S \cup {MaxId} |->
                       IF i \in S THEN f[i] ELSE Row(FeeDocFull, 0, <<>>)]
    /\ competition_auctions = {}
    /\ \E U \in SUBSET Uids :
        /\ Cardinality(U) <= MaxExecs
        /\ order_execution = [k \in U \X Ids |-> ExecRow(k[1])]

----------------------------------------------------------------------------
(* serde_json::from_value::<SolverSettlement>, taken alone.  A json value   *)
(* for a solution is described by the keys it has: whether "solver" is      *)
(* there, which key beginning with "score" it has and whether the value of  *)
(* that key is a number, and the keys of its order entry.                   *)

ScoreVariants == {"score", "scoreProtocol", "scoreProtocolWithSolverRisk",
                  "scoreDiscounted"}
ScoreKeys == ScoreVariants \cup {"scoreUnknown", "absent"}
OrderKeys == {"id", "sellAmount", "buyAmount", "executedAmount"}

SolutionValues ==
    [solver : BOOLEAN, scoreKey : ScoreKeys, scoreValid : BOOLEAN,
     order : SUBSET OrderKeys]

NoDocument == [solver |-> FALSE, scoreKey |-> "absent", scoreValid |-> FALSE,
               order |-> {}]

Outcome(status, score, order) == [status |-> status, score |-> score, order |-> order]
NotDecoded == Outcome("pending", "none", "none")
DecodeError == Outcome("error", "none", "none")

\* #[serde(untagged)] enum Order: the variants are tried in the order of
\* their declaration, a variant matches when all of its fields are there
DecodeOrderLegacyFirst(keys) ==
    IF {"id", "executedAmount"} \subseteq keys THEN "Legacy"
    ELSE IF {"id", "sellAmount", "buyAmount"} \subseteq keys THEN "Colocated"
    ELSE "error"
DecodeOrder(keys) ==
    IF {"id", "sellAmount", "buyAmount"} \subseteq keys THEN "Colocated"
    ELSE IF {"id", "executedAmount"} \subseteq keys THEN "Legacy"
    ELSE "error"

\* enum Score, externally tagged: the key names the variant
DecodeScore(key, valid) ==
    IF key \in ScoreVariants /\ valid THEN key ELSE "error"

\* #[serde(flatten)] score: Option<Score>: an Err of Score is None
DecodeOptionScore(key, valid) ==
    IF DecodeScore(key, valid) = "error" THEN "None" ELSE DecodeScore(key, valid)

\* struct SolverSettlement: solver and orders are required
DecodeSolverSettlement(v) ==
    IF ~v.solver \/ DecodeOrder(v.order) = "error" THEN DecodeError
    ELSE Outcome("ok", DecodeOptionScore(v.scoreKey, v.scoreValid), DecodeOrder(v.order))

from_value ==
    /\ walk = "decode"
    /\ decoded = NotDecoded
    /\ decoded' = DecodeSolverSettlement(document)
    /\ UNCHANGED <<walk, solver_competitions, competition_auctions, order_execution,
                   txOpen, txInserts, txUpdates, pc, current_auction_id,
                   starting_auction_number, competitions, idx, result, errCause,
                   log, run, results, faults, kills, fetchRes, fetched, saves,
                   updates, lastCommit, killCursor, killLost, committed,
                   corrected, snapshot, initial, document>>

NoDecoding == document = NoDocument /\ decoded = NotDecoded

Init ==
    /\ InitProcess
    /\ (InitPopulate \/ InitFee)
    /\ NoDecoding
    /\ snapshot = [auctions |-> competition_auctions, executions |-> order_execution]
    /\ initial = [auctions |-> competition_auctions, executions |-> order_execution]

Next ==
    \/ P_Begin
    \/ P_ResumePoint
    \/ P_Fetch
    \/ P_Process
    \/ P_Commit
    \/ P_BeginNext
    \/ F_Begin
    \/ F_ResumePoint
    \/ F_Fetch
    \/ F_Resolve
    \/ F_Exec
    \/ F_Commit
    \/ F_BeginNext
    \/ Kill
    \/ Restart

Spec == Init /\ [][Next]_vars

\* a process that is not terminated from outside keeps running its walk
Step ==
    \/ P_Begin \/ P_ResumePoint \/ P_Fetch \/ P_Process \/ P_Commit \/ P_BeginNext
    \/ F_Begin \/ F_ResumePoint \/ F_Fetch \/ F_Resolve \/ F_Exec \/ F_Commit
    \/ F_BeginNext

FairSpec == Spec /\ WF_vars(Step)

\* start() enters populate_historic_auctions: the process of that walk alone
PopulateInit ==
    /\ InitProcess
    /\ InitPopulate
    /\ NoDecoding
    /\ snapshot = [auctions |-> competition_auctions, executions |-> order_execution]
    /\ initial = [auctions |-> competition_auctions, executions |-> order_execution]

PopulateStep ==
    P_Begin \/ P_ResumePoint \/ P_Fetch \/ P_Process \/ P_Commit \/ P_BeginNext

PopulateNext ==
    \/ P_Begin
    \/ P_ResumePoint
    \/ P_Fetch
    \/ P_Process
    \/ P_Commit
    \/ P_BeginNext
    \/ Kill
    \/ Restart

PopulateFairSpec == PopulateInit /\ [][PopulateNext]_vars /\ WF_vars(PopulateStep)

\* one run of either walk that is not terminated from outside
RunNext ==
    \/ P_Begin
    \/ P_ResumePoint
    \/ P_Fetch
    \/ P_Process
    \/ P_Commit
    \/ P_BeginNext
    \/ F_Begin
    \/ F_ResumePoint
    \/ F_Fetch
    \/ F_Resolve
    \/ F_Exec
    \/ F_Commit
    \/ F_BeginNext

RunFairSpec == Init /\ [][RunNext]_vars /\ WF_vars(Step)

\* the decoder applied to one json value
DecodeInit ==
    /\ InitProcess
    /\ walk = "decode"
    /\ solver_competitions = <<>>
    /\ competition_auctions = {}
    /\ order_execution = NoUpdates
    /\ snapshot = [auctions |-> competition_auctions, executions |-> order_execution]
    /\ initial = [auctions |-> competition_auctions, executions |-> order_execution]
    /\ document \in SolutionValues
    /\ decoded = NotDecoded

DecodeNext == from_value

DecodeSpec == DecodeInit /\ [][DecodeNext]_vars

----------------------------------------------------------------------------
(* Properties *)

Src == solver_competitions

AuctionIds(table) == {r.id : r \in table}

WellFormed(i) ==
    /\ Src[i].json.kind = "doc"
    /\ Src[i].json.auctionStartBlock <= I64Max

\* the row r of competition_auctions holds the prices of source row i, each
\* value at the index of its token
Paired(r, i) ==
    LET prices == Src[i].json.prices IN
    /\ Len(r.price_tokens) = Cardinality(DOMAIN prices)
    /\ Len(r.price_values) = Len(r.price_tokens)
    /\ Range(r.price_tokens) = DOMAIN prices
    /\ \A k \in DOMAIN r.price_tokens :
          r.price_values[k] = [digits |-> prices[r.price_tokens[k]], scale |-> 0]

\* What one uninterrupted run of populate_historic_auctions leaves, from the
\* tables alone: the walk goes down from the lowest id of competition_auctions,
\* passes the rows whose json is null, and stops with an error at the first
\* row that does not decode or whose block overflows.
StartId == IF initial.auctions = {} THEN None ELSE Min(AuctionIds(initial.auctions))
Below == {i \in DOMAIN Src : i < StartId}
Stoppers == {i \in Below : Src[i].json.kind # "null" /\ ~WellFormed(i)}
StopId == IF Stoppers = {} THEN 0 ELSE Max(Stoppers)
Migrated == {i \in Below : i > StopId /\ WellFormed(i)}
UninterruptedAuctions ==
    initial.auctions \cup {BuildAuction(RichSolverCompetition(i)) : i \in Migrated}
UninterruptedResult == IF Stoppers = {} THEN "ok" ELSE "err"

\* C1: a walk restarted after a kill fetches no row with an id at or above the
\* cursor of the last successful commit of the killed run, and when the walk
\* returns, competition_auctions holds what an uninterrupted run leaves
\* (database errors aside).
C1_Resumability ==
    (walk = "populate" /\ faults = 0) =>
        /\ (run > 1 /\ results[run - 1] = "killed" /\ killCursor # None)
               => \A i \in fetched : i < killCursor
        /\ pc \in {"ok", "err"} =>
               /\ competition_auctions = UninterruptedAuctions
               /\ pc = UninterruptedResult

\* a run killed after a commit was started again and went on to the end
C1_Witness ==
    /\ walk = "populate" /\ faults = 0
    /\ run = 2 /\ results = <<"killed">>
    /\ killCursor # None /\ killCursor < StartId
    /\ fetched # {}
    /\ pc = "ok"

\* C2 as stated: well-formed source rows none of which has a row in
\* competition_auctions all have exactly one row there after one run.
C2_Original ==
    (/\ walk = "populate" /\ faults = 0 /\ run = 1 /\ pc = "ok"
     /\ \A i \in DOMAIN Src : WellFormed(i) /\ i \notin AuctionIds(initial.auctions))
    => \A i \in DOMAIN Src :
          /\ Cardinality({r \in competition_auctions : r.id = i}) = 1
          /\ \A r \in competition_auctions : r.id = i => Paired(r, i)

\* the source rows are well-formed and lie below the rows competition_auctions holds
C2_Pre ==
    /\ walk = "populate"
    /\ initial.auctions # {}
    /\ \A i \in DOMAIN Src : WellFormed(i) /\ i < StartId

C2_FirstRun ==
    (C2_Pre /\ faults = 0 /\ run = 1) =>
        /\ pc # "err"
        /\ pc = "ok" =>
              /\ AuctionIds(competition_auctions) = AuctionIds(initial.auctions) \cup DOMAIN Src
              /\ \A i \in DOMAIN Src :
                    /\ Cardinality({r \in competition_auctions : r.id = i}) = 1
                    /\ \A r \in competition_auctions : r.id = i => Paired(r, i)

C2_SecondRun ==
    (C2_Pre /\ faults = 0 /\ kills = 0 /\ run = 2 /\ results = <<"ok">>) =>
        /\ competition_auctions = snapshot.auctions
        /\ txInserts = {}
        /\ pc # "err"

C2_Disturbed == faults > 0 \/ kills > 0

\* C2, amended: when competition_auctions holds a row and the well-formed
\* source rows all lie below its lowest id, one run (batch size 1) leaves
\* exactly one row per source row, with the same id and the price values
\* index-aligned with the price tokens; a second run changes nothing and
\* returns.
C2_FirstRunMigration ==
    /\ [](C2_FirstRun /\ C2_SecondRun)
    /\ (C2_Pre /\ run = 1) ~> (pc = "ok" \/ C2_Disturbed)
    /\ (C2_Pre /\ run = 2 /\ results = <<"ok">>) ~> (pc = "ok" \/ C2_Disturbed \/ run > 2)

\* two runs, the first of which migrated a row with two prices
C2_Witness ==
    /\ C2_Pre /\ faults = 0 /\ kills = 0
    /\ run = 2 /\ results = <<"ok">> /\ pc = "ok"
    /\ \E i \in DOMAIN Src : Cardinality(DOMAIN Src[i].json.prices) = 2

\* C3: a second run after a run that returned Ok leaves competition_auctions
\* as the first run left it: it inserts nothing (it does not even fetch a row
\* for which it would call save), and it does not return an error.
C3_NormalizationIdempotent ==
    (walk = "populate" /\ faults = 0 /\ kills = 0 /\ run = 2 /\ results = <<"ok">>) =>
        /\ competition_auctions = snapshot.auctions
        /\ txInserts = {}
        /\ saves = {}
        /\ pc \notin {"err", "panic"}

\* the second run has returned after a first run that migrated rows
C3_Witness ==
    /\ walk = "populate" /\ faults = 0 /\ kills = 0
    /\ run = 2 /\ results = <<"ok">> /\ pc = "ok"
    /\ AuctionIds(competition_auctions) # AuctionIds(initial.auctions)
    /\ \E i \in DOMAIN Src : Src[i].json.kind = "null"

\* the order of an order_execution row, as the walk resolves it
OrderOf(k) == ResolveOrder(k[1])

\* C4 as stated: once a correction is committed, no later pass issues an update
\* for the row, and the row keeps the corrected fee and fee token.
C4_Original ==
    walk = "fee" =>
        /\ \A u \in updates : ~u.again
        /\ \A k \in DOMAIN corrected :
              order_execution[k] = corrected[k] /\ ExecView[k] = corrected[k]

\* C4, amended: once a correction is committed, every later pass leaves the
\* fee and the fee token of the row as corrected, and issues no update for it
\* unless the order's buy token is its sell token (the update is then issued
\* again, with the same values).
C4_FeeCorrectionIdempotent ==
    walk = "fee" =>
        /\ \A u \in updates :
              u.again => OrderOf(u.key).buy_token = OrderOf(u.key).sell_token
        /\ \A k \in DOMAIN corrected :
              order_execution[k] = corrected[k] /\ ExecView[k] = corrected[k]

\* a second pass has walked over a competition with a corrected row whose
\* order has two different tokens
C4_Witness ==
    /\ walk = "fee" /\ run = 2 /\ pc = "ok"
    /\ \E k \in DOMAIN corrected :
          /\ OrderOf(k).buy_token # OrderOf(k).sell_token
          /\ k[2] \in fetched
          /\ corrected[k] # initial.executions[k]

\* C5 as stated: a row whose json does not decode into a SolverCompetitionDB
\* is skipped; the walk does not return an error because of it.
C5_RowFailureIsolated ==
    pc = "err" => errCause # "deserialize SolverCompetitionDB"

\* C6: when fetches fail only for rows whose json column is malformed, every
\* other source row between the cursor and the starting point has been
\* fetched by this run: the cursor passes the malformed row and nothing else.
C6_MalformedRowTolerance ==
    faults = 0 =>
        \A i \in DOMAIN Src :
            (/\ current_auction_id <= i
             /\ i < starting_auction_number
             /\ Src[i].json.kind # "null") => i \in fetched

\* a malformed row was passed and the row below it was fetched in the same run
C6_Witness ==
    /\ faults = 0
    /\ \E m \in DOMAIN Src : \E i \in DOMAIN Src :
          /\ Src[m].json.kind = "null"
          /\ i < m /\ m < starting_auction_number
          /\ i \in fetched

\* C7 as stated: a database error of the fetch makes the walk return an error.
C7_FetchErrorIsFatal ==
    fetchRes = "dberror" => pc = "err"

\* the order_execution rows of competition c
KeysOf(c) == {k \in DOMAIN order_execution : k[2] = c}

\* what the walk over competition c makes of the row k, from the tables alone
CorrectedRow(k) ==
    LET o == OrderOf(k)
        row == initial.executions[k]
        sols == Src[k[2]].json.solutions
        last == sols[Len(sols)]
    IN  IF /\ o.kind = "Sell" /\ row.executed_fee_token = o.sell_token
           /\ o.sell_token \in DOMAIN last /\ o.buy_token \in DOMAIN last
        THEN [executed_fee |->
                 [digits |-> (row.executed_fee.digits * last[o.sell_token])
                                 \div last[o.buy_token],
                  scale |-> 0],
              executed_fee_token |-> o.buy_token]
        ELSE row

\* C8: the persisted tables hold the writes of whole committed batches only.
\* Of a competition whose batch was committed every order_execution row is as
\* the walk leaves it, of any other competition every row is as it was; and
\* competition_auctions holds a row for a source id only when its batch was
\* committed.
C8_CrashAtomicity ==
    /\ walk = "fee" =>
          \A c \in Ids :
             \A k \in KeysOf(c) :
                order_execution[k] =
                    IF c \in committed THEN CorrectedRow(k) ELSE initial.executions[k]
    /\ walk = "populate" =>
          /\ AuctionIds(competition_auctions) \subseteq
                 AuctionIds(initial.auctions) \cup committed
          /\ faults = 0 => committed \subseteq AuctionIds(competition_auctions)

\* a run was killed in the middle of a batch of two updates, after the first
C8_Witness ==
    /\ walk = "fee" /\ pc = "killed" /\ killLost = 1
    /\ \E c \in DOMAIN Src : \E k \in KeysOf(c) : \E j \in KeysOf(c) :
          /\ k # j
          /\ c \notin committed
          /\ Src[c].json = FeeDocFull
          /\ CorrectedRow(k) # initial.executions[k]
          /\ CorrectedRow(j) # initial.executions[j]

\* C9: update is called only for a Sell order whose execution has its fee in
\* the order's sell token; the rows of Buy orders, and the rows whose fee token
\* is not the sell token, stay as they were.
C9_FeeCorrectionGuard ==
    walk = "fee" =>
        /\ \A u \in updates : u.kind = "Sell" /\ u.fee_token = u.sell_token
        /\ \A k \in DOMAIN order_execution :
              (\/ OrderOf(k).kind # "Sell"
               \/ initial.executions[k].executed_fee_token # OrderOf(k).sell_token)
              => /\ order_execution[k] = initial.executions[k]
                 /\ ExecView[k] = initial.executions[k]

\* a committed competition with a corrected row and the row of a Buy order
C9_Witness ==
    /\ walk = "fee" /\ pc = "ok"
    /\ \E c \in committed : \E k \in KeysOf(c) : \E j \in KeysOf(c) :
          /\ order_execution[k] # initial.executions[k]
          /\ OrderOf(j).kind = "Buy"

\* the pair p of the competition being processed has no price for its sell
\* token or for its buy token in the last solution
PriceMissing(p) ==
    LET sols == competitions[idx].json.solutions IN
    /\ p.order.kind = "Sell"
    /\ p.order_execution.executed_fee_token = p.order.sell_token
    /\ sols # <<>>
    /\ \/ p.order.sell_token \notin DOMAIN sols[Len(sols)]
       \/ p.order.buy_token \notin DOMAIN sols[Len(sols)]

C10_Step ==
    (walk = "fee" /\ pc = "exec" /\ result' # result /\ pc' # "killed") =>
        \A p \in result \ result' :
            PriceMissing(p) =>
                /\ txUpdates' = txUpdates
                /\ order_execution' = order_execution
                /\ updates' = updates
                /\ Line("prices not found", p.key[2], p.key[1]) \in log'
                /\ pc' \in {"exec", "resolve", "commit"}

\* C10: the prices are those of the last solution; when it has no price for the
\* sell token or for the buy token, the iteration writes nothing, prints the
\* warning and the walk goes on with the next execution.
C10_MissingClearingPrice == [][C10_Step]_vars

\* the warning was printed and the walk went on to its end
C10_Witness ==
    /\ walk = "fee" /\ pc = "ok"
    /\ \E l \in log : l.msg = "prices not found"
    /\ committed # {}

\* the prices of the last solution of the competition of row k
LastPrices(k) ==
    LET sols == Src[k[2]].json.solutions IN sols[Len(sols)]

\* floor(executed_fee * sell_token_price / buy_token_price) over the integers,
\* and the buy token, for the row k as it was before the walk
ConvertedFee(k) ==
    [executed_fee |->
        [digits |-> (initial.executions[k].executed_fee.digits
                        * LastPrices(k)[OrderOf(k).sell_token])
                    \div LastPrices(k)[OrderOf(k).buy_token],
         scale |-> 0],
     executed_fee_token |-> OrderOf(k).buy_token]

\* C11 as stated: for every qualifying execution whose fee and prices are
\* 256-bit unsigned integers the conversion goes through, and the fee written
\* is floor(executed_fee * sell_token_price / buy_token_price) with the
\* order's buy token as the fee token.
C11_FeeArithmetic ==
    walk = "fee" =>
        /\ errCause # "arithmetic operation overflow"
        /\ \A k \in DOMAIN txUpdates : txUpdates[k] = ConvertedFee(k)
        /\ \A k \in DOMAIN order_execution :
              order_execution[k] # initial.executions[k]
                  => order_execution[k] = ConvertedFee(k)

\* the Auction rows the walk has built: those of the open transaction and
\* those of the table that were not there at the start
BuiltAuctions == txInserts \cup (competition_auctions \ initial.auctions)

Ascending(seq) == \A a \in DOMAIN seq : \A b \in DOMAIN seq : a < b => seq[a] < seq[b]

\* C12: every Auction row built by populate_historic_auctions has the id of
\* its source row, price_tokens in ascending order, price_values of the same
\* length with price_values[k] the price of price_tokens[k], and order_uids
\* equal to the order list of the snapshot, in its order.
C12_NormalizedRowShape ==
    walk = "populate" =>
        \A r \in BuiltAuctions :
            /\ r.id \in DOMAIN Src
            /\ Paired(r, r.id)
            /\ Ascending(r.price_tokens)
            /\ r.order_uids = Src[r.id].json.orders

\* a row was built from a snapshot with two prices and two orders that are
\* not in ascending order
C12_Witness ==
    /\ walk = "populate"
    /\ \E r \in competition_auctions \ initial.auctions :
          /\ Len(r.price_tokens) = 2
          /\ r.order_uids = <<2, 1>>

\* C13 as stated: a snapshot whose auction start block does not fit in an i64
\* costs its own row only: the walk does not return the error, the batch is
\* committed and the rows below are fetched.
C13_BlockOverflowRowLocal ==
    walk = "populate" =>
        /\ errCause # "block overflow"
        /\ \A i \in fetched :
              (Decodes(Src[i].json) /\ ~FitsI64(Src[i].json.auctionStartBlock)
               /\ pc \in {"ok", "err"} /\ faults = 0)
              => i \in committed

\* C14 as stated: a solution whose score key is none of the four variants
\* does not decode; from_value returns an error for it.
C14_UnrecognizedScoreFails ==
    (walk = "decode" /\ decoded # NotDecoded /\ document.scoreKey = "scoreUnknown")
        => decoded = DecodeError

\* C15: an order entry with sellAmount and buyAmount decodes to Colocated, one
\* with executedAmount and without that pair decodes to Legacy, and one with
\* neither makes the decode fail; the entry has its id and no tag.
C15_OrderShape ==
    (walk = "decode" /\ decoded # NotDecoded /\ "id" \in document.order) =>
        LET keys == document.order
            pair == {"sellAmount", "buyAmount"} \subseteq keys
            amount == "executedAmount" \in keys
        IN  /\ (pair /\ document.solver) => decoded.order = "Colocated"
            /\ (~pair /\ amount /\ document.solver) => decoded.order = "Legacy"
            /\ (~pair /\ ~amount) => decoded = DecodeError

\* an entry with all the three amounts was decoded, to Colocated
C15_Witness ==
    /\ walk = "decode"
    /\ document.order = OrderKeys
    /\ decoded.status = "ok"
    /\ decoded.order = "Colocated"

\* the competition whose executions are being resolved
Resolving(c) ==
    /\ competitions # <<>>
    /\ idx \in DOMAIN competitions
    /\ competitions[idx].id = c
    /\ \/ pc = "resolve"
       \/ pc = "err" /\ errCause \in {"deserialize SolverCompetitionDB",
                                      "fetch order executions"}

Orderless(k) == k[1] \notin DOMAIN orders \cup DOMAIN jit_orders

\* C16: the order of an execution is the row of orders when there is one and
\* the row of jit_orders otherwise; an execution with a row in neither table
\* gets the warning, is never updated, and does not keep the other
\* executions of its competition from being handled.
C16_OrderResolution ==
    walk = "fee" =>
        /\ \A p \in result :
              /\ ~Orderless(p.key)
              /\ p.order = IF p.key[1] \in DOMAIN orders THEN orders[p.key[1]]
                           ELSE jit_orders[p.key[1]]
        /\ \A u \in updates : ~Orderless(u.key)
        /\ \A k \in DOMAIN order_execution :
              Orderless(k) =>
                  /\ order_execution[k] = initial.executions[k]
                  /\ ExecView[k] = initial.executions[k]
                  /\ (k[2] \in fetched /\ ~Resolving(k[2]))
                        => Line("order not found", k[2], k[1]) \in log
        /\ \A k \in DOMAIN order_execution :
              (Orderless(k) /\ k[2] \in committed)
                  => \A j \in DOMAIN order_execution :
                        j[2] = k[2] => order_execution[j] = CorrectedRow(j)

\* a competition was committed with an execution that has no order, an
\* execution of a jit order that was corrected, and the warning printed
C16_Witness ==
    /\ walk = "fee" /\ pc = "ok"
    /\ \E c \in committed : \E k \in KeysOf(c) : \E j \in KeysOf(c) :
          /\ Orderless(k)
          /\ Line("order not found", c, k[1]) \in log
          /\ j[1] \in DOMAIN jit_orders \ DOMAIN orders
          /\ order_execution[j] # initial.executions[j]

C17_Step ==
    walk = "fee" =>
        /\ DOMAIN order_execution' = DOMAIN order_execution
        /\ DOMAIN txUpdates' \subseteq DOMAIN order_execution
        /\ competition_auctions' = competition_auctions
        /\ txInserts' = txInserts
        /\ solver_competitions' = solver_competitions
        /\ \A k \in DOMAIN order_execution :
              /\ order_execution'[k] # order_execution[k]
                    => pc = "commit" /\ order_execution'[k] = txUpdates[k]
              /\ ExecView'[k] # ExecView[k]
                    => \/ /\ pc = "exec"
                          /\ k[2] = competitions[idx].id
                          /\ \E p \in result : p.key = k
                       \/ /\ ~txOpen'
                          /\ ExecView'[k] = order_execution[k]

\* C17: convert_executed_fee creates and deletes no order_execution row; a
\* step changes the fee and the fee token of a row only when it is update on
\* the row (order_uid, auction_id) of an execution of the competition being
\* processed (or the loss of that write with its transaction), and leaves
\* every other row and every other table as it is.
C17_InPlaceMutation == [][C17_Step]_vars

\* a row was corrected and the row of the same order in another competition,
\* and another row of the same competition, are as they were
C17_Witness ==
    /\ walk = "fee" /\ pc = "ok"
    /\ \E k \in DOMAIN order_execution : \E j \in DOMAIN order_execution :
       \E i \in DOMAIN order_execution :
          /\ order_execution[k] # initial.executions[k]
          /\ j[1] = k[1] /\ j[2] # k[2]
          /\ order_execution[j] = initial.executions[j]
          /\ i[2] = k[2] /\ i[1] # k[1]
          /\ order_execution[i] = initial.executions[i]

\* the walk has written nothing and fetched nothing in this run
NothingDone ==
    /\ fetched = {} /\ fetchRes = "none" /\ saves = {} /\ updates = {}
    /\ txInserts = {} /\ txUpdates = NoUpdates
    /\ competition_auctions = snapshot.auctions
    /\ order_execution = snapshot.executions

\* the table the resume point is read from has no row
EmptyStart ==
    \/ walk = "populate" /\ competition_auctions = {}
    \/ walk = "fee" /\ DOMAIN solver_competitions = {}

\* the step that runs the resume-point query
C18_Step ==
    (pc = "resume" /\ pc' \notin {"resume", "killed"}) =>
        IF faults' # faults
        THEN pc' = "err" /\ current_auction_id' = None
        ELSE IF EmptyStart
        THEN pc' = "ok"
        ELSE /\ pc' = "fetch"
             /\ starting_auction_number' = current_auction_id'
             /\ walk = "populate" =>
                   /\ current_auction_id' \in AuctionIds(competition_auctions)
                   /\ \A i \in AuctionIds(competition_auctions) : current_auction_id' <= i
             /\ walk = "fee" =>
                   /\ current_auction_id' \in DOMAIN solver_competitions
                   /\ \A i \in DOMAIN solver_competitions : i <= current_auction_id'

FetchContract(ids, cursor, n) ==
    /\ Len(ids) <= n
    /\ \A k \in DOMAIN ids : ids[k] \in DOMAIN Src /\ ids[k] < cursor
    /\ \A a \in DOMAIN ids : \A b \in DOMAIN ids : a < b => ids[a] > ids[b]
    /\ \A i \in DOMAIN Src :
          (i < cursor /\ i \notin Range(ids))
              => /\ Len(ids) = n
                 /\ \A k \in DOMAIN ids : i < ids[k]

\* C19: a successful fetch returns at most batch_size rows, all below the
\* cursor, in strictly descending order of id, and no source row lies between
\* the cursor and the rows returned; a fetch that returns no row ends the
\* walk with Ok.
C19_FetchContract ==
    /\ (pc = "begin" /\ run = 1) =>
          \A cursor \in 0..(MaxId + 1) : \A n \in 1..(BATCH_SIZE + 1) :
              FetchContract(FetchIds(cursor, n), cursor, n)
    /\ pc \in {"process", "resolve", "exec", "commit"} =>
          /\ FetchContract([k \in DOMAIN competitions |-> competitions[k].id],
                           current_auction_id, BATCH_SIZE)
          /\ \A k \in DOMAIN competitions :
                competitions[k].json = Src[competitions[k].id].json
    /\ fetchRes = "empty" =>
          /\ pc = "ok"
          /\ \A i \in DOMAIN Src : i >= current_auction_id

\* a fetch has returned the row just below the cursor, with another row
\* below it, and a later fetch of the run has returned nothing
C19_Witness ==
    /\ walk = "populate" /\ fetchRes = "empty" /\ pc = "ok"
    /\ Cardinality(fetched) >= 2

BatchIds == {competitions[k].id : k \in DOMAIN competitions}

C20_Step ==
    /\ (/\ current_auction_id' # current_auction_id
        /\ pc \notin {"resume", "fetch"}
        /\ current_auction_id' # None)
       => /\ pc = "begin_next" /\ pc' = "fetch"
          /\ faults' = faults
          /\ txOpen'
          /\ BatchIds \subseteq committed
          /\ current_auction_id' = competitions[Len(competitions)].id
          /\ \A i \in BatchIds : current_auction_id' <= i
    /\ (pc \in {"commit", "begin_next"} /\ faults' # faults)
       => /\ pc' = "err"
          /\ errCause' \in {"commit", "begin"}
          /\ current_auction_id' = current_auction_id
          /\ fetched' = fetched
          /\ ~txOpen'
    /\ pc = "err" => (fetched' = fetched \/ run' = run + 1)

\* C20: the cursor moves to the id of the last row of the batch only in the
\* step after the batch's commit that opens the next transaction; when the
\* commit or that begin fails the walk returns the error with the cursor
\* where it was, and fetches nothing more.
C20_CommitBeforeAdvance == [][C20_Step]_vars

\* a walk stopped on a failed commit after an earlier batch was committed
\* and the cursor had moved to its row
C20_Witness ==
    /\ pc = "err" /\ errCause = "commit"
    /\ committed # {}
    /\ current_auction_id \in committed

\* a step of the loop of a walk, with the cursor set before and after it
InLoop ==
    /\ current_auction_id # None /\ current_auction_id' # None
    /\ pc \notin {"begin", "resume"}
    /\ run' = run

C21_Step ==
    InLoop =>
        /\ current_auction_id' <= current_auction_id
        /\ (pc = "fetch" /\ pc' = "fetch" /\ fetchRes' \in {"malformed", "dberror"}
            /\ log' # log)
              => current_auction_id' = current_auction_id - 1
        /\ (pc = "begin_next" /\ pc' = "fetch")
              => /\ current_auction_id' < current_auction_id
                 /\ current_auction_id' = competitions[Len(competitions)].id
        /\ (pc = "fetch" /\ pc' \in {"process", "resolve"})
              => /\ fetched' # fetched
                 /\ \A k \in DOMAIN competitions' :
                       /\ competitions'[k].id \notin fetched
                       /\ competitions'[k].id < current_auction_id
        /\ fetched' # fetched => pc = "fetch"

\* C21: within a run the cursor never increases; an iteration that goes round
\* the loop lowers it, by one after a failed fetch and to the last id of the
\* batch after a commit; no row is fetched twice by the same run.
C21_MonotoneCursor == [][C21_Step]_vars

\* a run has lowered its cursor both ways and has fetched two rows
C21_Witness ==
    /\ walk = "populate" /\ pc = "ok"
    /\ fetchRes = "empty"
    /\ Cardinality(fetched) >= 2
    /\ \E l \in log : l.msg = "failed to deserialize"

SaveFailedLine(id) == Line("failed to save auction", id, 0)

C22_Step ==
    walk = "populate" =>
        /\ (pc = "process" /\ pc' # "killed" /\ saves' # saves) =>
              /\ competitions[idx].id \notin saves
              /\ txInserts' = txInserts =>
                    /\ SaveFailedLine(competitions[idx].id) \in log'
                    /\ pc' = (IF idx = Len(competitions) THEN "commit" ELSE "process")
                    /\ idx' = idx + 1
                    /\ errCause' = errCause
                    /\ txOpen'
        /\ (pc = "begin_next" /\ pc' = "fetch"
            /\ SaveFailedLine(competitions[Len(competitions)].id) \in log) =>
              /\ current_auction_id' = competitions[Len(competitions)].id
              /\ competitions[Len(competitions)].id \in committed

\* C22: a failed insert of an Auction row is logged and not tried again; the
\* walk does not return an error for it, goes on with the batch, commits, and
\* moves its cursor to the last row of the batch as after any other batch.
C22_ToleratedInsertFailure == [][C22_Step]_vars

\* a walk has ended with Ok after an insert that failed: the row is missing
\* and a row below it was migrated afterwards
C22_Witness ==
    /\ walk = "populate" /\ pc = "ok"
    /\ \E l \in log :
          /\ l.msg = "failed to save auction"
          /\ l.id \notin AuctionIds(competition_auctions)
          /\ l.id \in committed
          /\ \E r \in competition_auctions \ initial.auctions : r.id < l.id

Returned == pc \in {"ok", "err", "panic"}

C24_FeeWalkCoverage ==
    (walk = "fee" /\ pc = "ok" /\ faults = 0 /\ kills = 0) =>
        \A c \in DOMAIN Src :
            Src[c].json.kind # "null" =>
                /\ c \in fetched
                /\ \A k \in KeysOf(c) : order_execution[k] = CorrectedRow(k)

\* the execution k qualifies for the correction and its competition decodes
\* with no solution
EmptySolutions(k) ==
    /\ k[2] \in DOMAIN Src
    /\ Src[k[2]].json.kind = "doc"
    /\ Src[k[2]].json.solutions = <<>>
    /\ OrderOf(k) # NoOrder
    /\ NeedsUpdate(OrderOf(k), initial.executions[k])

\* C26: over a qualifying execution of a competition with no solution the fee
\* walk does not abort: it writes the "prices not found" line, leaves the row
\* as it was and goes on.
C26_EmptySolutionList ==
    walk = "fee" =>
        \A k \in DOMAIN order_execution :
            EmptySolutions(k) =>
                /\ ~(pc = "panic" /\ competitions[idx].id = k[2])
                /\ order_execution[k] = initial.executions[k]
                /\ k[2] \in committed
                      => Line("prices not found", k[2], k[1]) \in log

\* the execution k qualifies for the correction and the last solution of its
\* competition prices the buy token of its order at 0
ZeroBuyPrice(k) ==
    /\ k[2] \in DOMAIN Src
    /\ Src[k[2]].json.kind = "doc"
    /\ Src[k[2]].json.solutions # <<>>
    /\ OrderOf(k) # NoOrder
    /\ NeedsUpdate(OrderOf(k), initial.executions[k])
    /\ LET prices == PricedSolution(Src[k[2]].json.solutions) IN
          /\ OrderOf(k).sell_token \in DOMAIN prices
          /\ OrderOf(k).buy_token \in DOMAIN prices
          /\ prices[OrderOf(k).buy_token] = 0

\* C27: over a qualifying execution whose buy token is priced at 0 the fee
\* walk does not abort with a division by zero, and it persists no fee for it.
C27_ZeroBuyPrice ==
    walk = "fee" =>
        /\ errCause # "division by zero"
        /\ \A k \in DOMAIN order_execution :
              ZeroBuyPrice(k) =>
                  /\ order_execution[k] = initial.executions[k]
                  /\ k \notin DOMAIN txUpdates

\* C25: when populate_historic_auctions has returned Ok and no database call
\* failed, every well-formed source row below the starting cursor has exactly
\* one row in competition_auctions, and the ids the walk added are the ids of
\* all source rows below the starting cursor but those with a null json: no
\* other row below the cursor is passed over, and no row at or above it is
\* written.
C25_NormalizerCoverage ==
    (walk = "populate" /\ faults = 0 /\ pc = "ok") =>
        /\ \A i \in Below :
              WellFormed(i) =>
                  Cardinality({r \in competition_auctions : r.id = i}) = 1
        /\ AuctionIds(competition_auctions) \ AuctionIds(initial.auctions)
              = {i \in Below : Src[i].json.kind # "null"}
        /\ \A r \in competition_auctions \ initial.auctions : r.id < StartId

\* the walk has returned Ok after passing a null row and migrating a row below it
C25_Witness ==
    /\ walk = "populate" /\ faults = 0 /\ kills = 0 /\ run = 1 /\ pc = "ok"
    /\ \E i \in Below :
          /\ Src[i].json.kind = "null"
          /\ \E j \in Below :
                /\ j < i /\ WellFormed(j)
                /\ Cardinality({r \in competition_auctions : r.id = j}) = 1

====
